---- MODULE Spec2Model ----
(***************************************************************************)
(* Model of the penora-write backend: the auth router (src/auth.py) and    *)
(* the story handlers (src/main.py).                                       *)
(*                                                                         *)
(* The two MongoDB collections are the shared state.  `users` is kept as a *)
(* sequence in insertion (natural) order, because find_one returns the     *)
(* first match in natural order.  signup and login are plain `def`         *)
(* handlers, so FastAPI runs them on threadpool threads: signup is two     *)
(* storage steps (find_one, insert_one) that interleave with everything.   *)
(* google_login and the story handlers are `async def` and contain no      *)
(* await between their storage calls, so they run on the single event loop *)
(* one at a time; `loop` holds the federated login that is between its     *)
(* find_one and its insert_one.  `issued` records every token handed out   *)
(* with the time it was handed out; `welcomed` counts the calls of         *)
(* send_welcome_email per provider subject id; `signed` records the        *)
(* (username, password) of every sign-up that was answered with success.   *)
(***************************************************************************)
EXTENDS Integers, Sequences, FiniteSets, TLC

VARIABLES users, stories, nextId, now, issued, welcomed, signed, threads, loop, last

vars == <<users, stories, nextId, now, issued, welcomed, signed, threads, loop, last>>

(***************************************************************************)
(* Bounds of the model.                                                    *)
(***************************************************************************)
MaxUsers == 2
MaxStories == 2
MaxTokens == 2
MaxTime == 40

(***************************************************************************)
(* Program constants.                                                      *)
(***************************************************************************)
ACCESS_TOKEN_EXPIRE_MINUTES == 30
SECRET_KEY == 7
MAX_PASSWORD_LENGTH == 128

(***************************************************************************)
(* Input domains.                                                          *)
(***************************************************************************)
Usernames == {"a", "b"}
SignupNames == {"a", ""}
Passwords == {"p", "q"}
Subs == {"g1", "g2"}
TickSteps == {20}
\* signup runs on threadpool threads; two of them are enough to race.
ThreadIds == {1, 2}
\* The values bcrypt.gensalt() may draw.
Salts == {1, 2}

\* Request bodies of the story handlers: dicts that may lack any key.
Body1 == [title |-> "t1", story |-> "s1", story_type |-> "c1"]
Body2 == [title |-> "t2", story |-> "s2", story_type |-> "c2"]
Body3 == [username |-> "b"]

\* The credential of a federated login: an assertion the provider's
\* verifier accepts (with the claims it then yields) or one it rejects.
Credentials ==
    { [ok |-> TRUE, sub |-> s, email |-> e] : s \in Subs, e \in Usernames }
    \cup { [ok |-> FALSE, sub |-> "g1", email |-> "a"] }

\* Path ids: ids of the ObjectId form, and one string ObjectId() rejects.
BadId == 0
StoryIds == 0..MaxStories

(***************************************************************************)
(* bcrypt.  gensalt() draws a random salt; hashpw embeds the salt in its   *)
(* result; checkpw re-hashes with the embedded salt and compares.          *)
(***************************************************************************)
\* A plaintext one character longer than MAX_PASSWORD_LENGTH.
LongPw == "long"

\* len(request.password)
PwLen(p) == CASE p = "" -> 0 [] p = LongPw -> MAX_PASSWORD_LENGTH + 1 [] OTHER -> 1

\* bcrypt works on at most 72 bytes: older releases cut a longer plaintext
\* silently, newer ones raise ValueError.
BcryptMaxBytes == 72

BcryptOutcomes(p) == IF PwLen(p) > BcryptMaxBytes THEN {"cut", "raise"} ELSE {"ok"}

PwCode(p) == CASE p = "p" -> 1 [] p = "q" -> 2 [] p = LongPw -> 3 [] OTHER -> 0

hashpw(p, salt) == [salt |-> salt, digest |-> (PwCode(p) + 1) * 10 + salt]

checkpw(p, hashed) == hashpw(p, hashed.salt) = hashed

(***************************************************************************)
(* jose.jwt with HS256.  A token is its payload and the MAC of the payload *)
(* under SECRET_KEY.  Callers may also send no header or a malformed one.  *)
(***************************************************************************)
UserCode(u) == CASE u = "a" -> 1 [] u = "b" -> 2 [] OTHER -> 0

Sign(username, exp) == SECRET_KEY + UserCode(username) * 1000 + exp

jwt_encode(username, exp) ==
    [kind |-> "jwt", username |-> username, exp |-> exp, sig |-> Sign(username, exp)]

Missing == [kind |-> "missing", username |-> "", exp |-> 0, sig |-> 0]
Malformed == [kind |-> "malformed", username |-> "", exp |-> 0, sig |-> 0]

\* jwt_valid without the expiry test.
jwt_valid_no_exp(token, t) ==
    /\ token.kind = "jwt"
    /\ token.sig = Sign(token.username, token.exp)

\* jwt_valid without the signature test.
jwt_valid_no_sig(token, t) ==
    /\ token.kind = "jwt"
    /\ ~(token.exp < t)

\* Signature check first, then expiry (exp < now is expired).
jwt_valid(token, t) ==
    /\ token.kind = "jwt"
    /\ token.sig = Sign(token.username, token.exp)
    /\ ~(token.exp < t)

\* get_current_user: the username claim of a token that decodes, else 401.
Invalid == "<401>"

get_current_user(token, t) ==
    IF jwt_valid(token, t) /\ token.username # "" THEN token.username ELSE Invalid

\* What a caller can put in the Authorization header: any token it was
\* given, such a token with its payload altered, rubbish, or nothing.
Tampered(toks) ==
    { [t EXCEPT !.username = u] : t \in toks, u \in Usernames }
    \cup { [t EXCEPT !.exp = t.exp + ACCESS_TOKEN_EXPIRE_MINUTES] : t \in toks }

Held == { r.token : r \in issued }

Bearers == Held \cup Tampered(Held) \cup {Missing, Malformed}

\* A token that carries a good signature and an expiry but neither a
\* username nor a sub claim (the case of lines 46-48).
Subjectless == { jwt_encode("", now + ACCESS_TOKEN_EXPIRE_MINUTES) }

(***************************************************************************)
(* Storage queries.                                                        *)
(***************************************************************************)
\* A query {field: value} matches a record that has the field with that value.
Matches(rec, field, value) == field \in DOMAIN rec /\ rec[field] = value

\* db.users.find_one(query): the index of the first match in natural
\* order, 0 (None) when there is none.
find_one(field, value) ==
    IF \E i \in 1..Len(users) : Matches(users[i], field, value)
    THEN CHOOSE i \in 1..Len(users) :
            /\ Matches(users[i], field, value)
            /\ \A j \in 1..(i - 1) : ~Matches(users[j], field, value)
    ELSE 0

\* story_filter without the owner.
story_filter_by_id(doc, story_id, user) == doc._id = story_id

\* The filter {"_id": ObjectId(story_id), "username": user}.
story_filter(doc, story_id, user) == doc._id = story_id /\ doc.username = user

\* find_stories without the owner.
find_stories_all(user) == stories

\* stories_col.find({"username": user}).
find_stories(user) == { d \in stories : d.username = user }

\* dict.get(key, default)
Get(data, key, default) == IF key \in DOMAIN data THEN data[key] ELSE default

None == "<none>"

\* str(ObjectId) and datetime.isoformat() as get_my_stories applies them.
IdStr(i) ==
    CASE i = 1 -> "id1" [] i = 2 -> "id2" [] i = 3 -> "id3" [] i = 4 -> "id4"
      [] OTHER -> "id?"

isoformat(t) == <<"iso", t>>

Listed(d) == [d EXCEPT !._id = IdStr(d._id), !.saved_at = isoformat(d.saved_at)]

\* SetFields when the update replaces the document instead of using $set.
SetFields_replace(d, title, story, story_type, t) ==
    [k \in DOMAIN d \cup {"updated_at"} |->
        CASE k = "title" -> title
          [] k = "story" -> story
          [] k = "story_type" -> story_type
          [] k = "updated_at" -> t
          [] k = "_id" -> d[k]
          [] OTHER -> None]

\* The document update_one's $set leaves behind.
SetFields(d, title, story, story_type, t) ==
    [k \in DOMAIN d \cup {"updated_at"} |->
        CASE k = "title" -> title
          [] k = "story" -> story
          [] k = "story_type" -> story_type
          [] k = "updated_at" -> t
          [] OTHER -> d[k]]

(***************************************************************************)
(* Responses.  `last` is the request just handled and its answer; `db`     *)
(* tells whether the handler got as far as a call on the stories           *)
(* collection.                                                             *)
(***************************************************************************)
NoToken == [kind |-> "none", username |-> "", exp |-> 0, sig |-> 0]

Resp(op, status, detail) ==
    [op |-> op, status |-> status, detail |-> detail,
     bearer |-> NoToken, user |-> "", id |-> 0, username |-> "", password |-> "",
     sub |-> "", access_token |-> NoToken, email |-> "", mail |-> "none",
     db |-> FALSE, stories |-> {}, verified |-> FALSE, data |-> <<>>,
     hashed_len |-> -1]

Idle == [pc |-> "idle"]

\* LoopFree as if google_login awaited between its storage calls.
LoopFree_awaiting == TRUE

\* The event loop runs one coroutine at a time and the async handlers have
\* no await between their storage calls.
LoopFree == loop = {}

Init ==
    /\ users = <<>>
    /\ stories = {}
    /\ nextId = 1
    /\ now = 0
    /\ issued = {}
    /\ welcomed = [s \in Subs |-> 0]
    /\ signed = {}
    /\ threads = [i \in ThreadIds |-> Idle]
    /\ loop = {}
    /\ last = Resp("init", 0, "")

\* The token a login hands out is one more token callers hold.
Issue(token, subject) ==
    /\ (token \in Held \/ Cardinality(issued) < MaxTokens)
    /\ issued' = issued \cup {[token |-> token, at |-> now, subject |-> subject]}

(***************************************************************************)
(* src/auth.py signup, lines 104-113.                                      *)
(***************************************************************************)
\* signup_check with the two tests in the other order.
signup_check_fields_first(found, username, password) ==
    IF username = "" \/ password = "" THEN "Username and password are required"
    ELSE IF found THEN "User already exists"
    ELSE "ok"

\* Lines 106-110: the two rejections, in the order the handler tests them.
signup_check(found, username, password) ==
    IF found THEN "User already exists"
    ELSE IF username = "" \/ password = "" THEN "Username and password are required"
    ELSE "ok"

SignupBegin(i, username, password) ==
    /\ threads[i] = Idle
    /\ LET req == [Resp("signup", 0, "") EXCEPT !.username = username, !.password = password]
           check == signup_check(find_one("username", username) # 0, username, password)
       IN IF check # "ok"
          THEN /\ last' = [req EXCEPT !.status = 400, !.detail = check]
               /\ UNCHANGED threads
          ELSE /\ threads' = [threads EXCEPT ![i] =
                                 [pc |-> "insert", username |-> username, password |-> password]]
               /\ last' = req
    /\ UNCHANGED <<users, stories, nextId, now, issued, welcomed, signed, loop>>

SignupInsert(i, salt) ==
    /\ threads[i] # Idle
    /\ Len(users) < MaxUsers
    /\ threads' = [threads EXCEPT ![i] = Idle]
    /\ LET req == [Resp("signup_done", 0, "") EXCEPT
                       !.username = threads[i].username, !.password = threads[i].password,
                       !.hashed_len = PwLen(threads[i].password)]
       IN \E outcome \in BcryptOutcomes(threads[i].password) :
             IF outcome = "raise"
             THEN /\ last' = [req EXCEPT !.status = 500, !.detail = "Internal Server Error"]
                  /\ UNCHANGED <<users, signed>>
             ELSE /\ users' = Append(users,
                                     [username |-> threads[i].username,
                                      hashed_password |-> hashpw(threads[i].password, salt)])
                  /\ last' = [req EXCEPT !.status = 200, !.detail = "Account created!"]
                  /\ signed' = signed \cup {<<threads[i].username, threads[i].password>>}
    /\ UNCHANGED <<stories, nextId, now, issued, welcomed, loop>>

(***************************************************************************)
(* src/auth.py login, lines 116-132.  One storage read.  A record without  *)
(* a hashed_password field makes user['hashed_password'] raise KeyError,   *)
(* which the framework answers with 500.                                   *)
(***************************************************************************)
Login(username, password) ==
    LET i == find_one("username", username)
        req == [Resp("login", 0, "") EXCEPT !.username = username, !.password = password]
        checked == [req EXCEPT !.hashed_len = PwLen(password)]
    IN  /\ IF i = 0
           THEN /\ last' = [req EXCEPT !.status = 401, !.detail = "Invalid credentials"]
                /\ UNCHANGED issued
           ELSE IF "hashed_password" \notin DOMAIN users[i]
           THEN /\ last' = [req EXCEPT !.status = 500, !.detail = "Internal Server Error"]
                /\ UNCHANGED issued
           ELSE \E outcome \in BcryptOutcomes(password) :
                IF outcome = "raise"
                THEN /\ last' = [checked EXCEPT !.status = 500,
                                                !.detail = "Internal Server Error"]
                     /\ UNCHANGED issued
                ELSE IF ~checkpw(password, users[i].hashed_password)
                THEN /\ last' = [checked EXCEPT !.status = 401,
                                                !.detail = "Invalid credentials"]
                     /\ UNCHANGED issued
                ELSE LET token == jwt_encode(users[i].username,
                                             now + ACCESS_TOKEN_EXPIRE_MINUTES)
                     IN /\ Issue(token, users[i].username)
                        /\ last' = [checked EXCEPT !.status = 200, !.access_token = token,
                                                   !.email = users[i].username]
        /\ UNCHANGED <<users, stories, nextId, now, welcomed, signed, threads, loop>>

(***************************************************************************)
(* src/auth.py google_login, lines 135-170.  The verifier's rejection and  *)
(* every other exception become 400.  A first-time login is two storage    *)
(* steps on the event loop.                                                *)
(***************************************************************************)
\* The subject the session token is issued for (line 160).
token_subject(email, stored) == email

\* verify_oauth2_token with the verification left out.
verify_oauth2_token_unchecked(cred) == TRUE

\* id_token.verify_oauth2_token (line 138): raises unless the provider's
\* check of the assertion passes.
verify_oauth2_token(cred) == cred.ok

\* send_welcome_email without its try/except.
send_welcome_email_raising(delivered) == IF delivered THEN "sent" ELSE "raised"

\* send_welcome_email (lines 42-98): True when the mail went out, False
\* (after printing the error) when anything in it raised.
send_welcome_email(delivered) == IF delivered THEN "sent" ELSE "failed"

GoogleLoginBegin(cred) ==
    /\ LoopFree
    /\ LET req == [Resp("google", 0, "") EXCEPT !.sub = cred.sub, !.username = cred.email,
                                                !.verified = cred.ok]
           i == find_one("google_id", cred.sub)
       IN IF ~verify_oauth2_token(cred)
          THEN /\ last' = [req EXCEPT !.status = 400, !.detail = "verifier rejection"]
               /\ UNCHANGED <<issued, loop>>
          ELSE IF i # 0
          THEN LET token == jwt_encode(token_subject(cred.email, users[i].username),
                                       now + ACCESS_TOKEN_EXPIRE_MINUTES)
               IN /\ Issue(token, cred.email)
                  /\ last' = [req EXCEPT !.status = 200, !.access_token = token,
                                         !.email = cred.email, !.user = users[i].username]
                  /\ UNCHANGED loop
          ELSE /\ loop' = loop \cup {[sub |-> cred.sub, email |-> cred.email]}
               /\ last' = req
               /\ UNCHANGED issued
    /\ UNCHANGED <<users, stories, nextId, now, welcomed, signed, threads>>

\* An exception out of send_welcome_email would land in google_login's own
\* except clause (line 169) and turn the login into a 400.
GoogleLoginInsert(task, sent) ==
    /\ task \in loop
    /\ Len(users) < MaxUsers
    /\ LET new_user == [username |-> task.email, google_id |-> task.sub, name |-> "User",
                        email |-> task.email, created_at |-> now]
           token == jwt_encode(token_subject(task.email, new_user.username),
                               now + ACCESS_TOKEN_EXPIRE_MINUTES)
           mail == send_welcome_email(sent)
           req == [Resp("google_done", 0, "") EXCEPT
                      !.sub = task.sub, !.username = task.email, !.verified = TRUE,
                      !.user = new_user.username, !.mail = mail]
       IN /\ users' = Append(users, new_user)
          /\ welcomed' = [welcomed EXCEPT ![task.sub] = @ + 1]
          /\ IF mail = "raised"
             THEN /\ last' = [req EXCEPT !.status = 400, !.detail = "mail error"]
                  /\ UNCHANGED issued
             ELSE /\ Issue(token, task.email)
                  /\ last' = [req EXCEPT !.status = 200, !.access_token = token,
                                         !.email = task.email]
    /\ loop' = loop \ {task}
    /\ UNCHANGED <<stories, nextId, now, signed, threads>>

(***************************************************************************)
(* src/main.py: the bearer dependency and get_current_user, then the       *)
(* story handlers.                                                         *)
(***************************************************************************)
\* Unauthorized with the decoder's own message for a token that expired.
Unauthorized_cause(req) ==
    IF req.bearer = Missing
    THEN [req EXCEPT !.status = 401, !.detail = "Not authenticated"]
    ELSE IF req.bearer.kind = "jwt" /\ req.bearer.sig = Sign(req.bearer.username, req.bearer.exp)
            /\ req.bearer.username # ""
    THEN [req EXCEPT !.status = 401, !.detail = "Signature has expired."]
    ELSE [req EXCEPT !.status = 401, !.detail = "Could not validate credentials"]

\* oauth2_scheme answers a request without Authorization header itself.
Unauthorized(req) ==
    IF req.bearer = Missing
    THEN [req EXCEPT !.status = 401, !.detail = "Not authenticated"]
    ELSE [req EXCEPT !.status = 401, !.detail = "Could not validate credentials"]

\* story_owner taken from the request body when the body names one.
story_owner_from_body(user, data) == Get(data, "username", user)

\* The owner save_story stores (line 67).
story_owner(user, data) == user

SaveStory(bearer, data) ==
    /\ LoopFree
    /\ LET user == get_current_user(bearer, now)
           req == [Resp("save", 0, "") EXCEPT !.bearer = bearer, !.data = data]
       IN IF bearer = Missing \/ user = Invalid
          THEN /\ last' = Unauthorized(req)
               /\ UNCHANGED <<stories, nextId>>
          ELSE /\ nextId <= MaxStories
               /\ stories' = stories \cup
                    {[_id |-> nextId, username |-> story_owner(user, data),
                      title |-> Get(data, "title", ""),
                      story |-> Get(data, "story", None),
                      story_type |-> Get(data, "story_type", None),
                      saved_at |-> now]}
               /\ nextId' = nextId + 1
               /\ last' = [req EXCEPT !.status = 200, !.detail = "Story saved!",
                                      !.user = user, !.id = nextId, !.db = TRUE]
    /\ UNCHANGED <<users, now, issued, welcomed, signed, threads, loop>>

GetMyStories(bearer) ==
    /\ LoopFree
    /\ LET user == get_current_user(bearer, now)
           req == [Resp("list", 0, "") EXCEPT !.bearer = bearer]
       IN IF bearer = Missing \/ user = Invalid
          THEN last' = Unauthorized(req)
          ELSE last' = [req EXCEPT !.status = 200, !.user = user, !.db = TRUE,
                                   !.stories = { Listed(d) : d \in find_stories(user) }]
    /\ UNCHANGED <<users, stories, nextId, now, issued, welcomed, signed, threads, loop>>

UpdateStory(bearer, story_id, data) ==
    /\ LoopFree
    /\ LET user == get_current_user(bearer, now)
           req == [Resp("update", 0, "") EXCEPT !.bearer = bearer, !.id = story_id,
                                                !.data = data]
           matched == { d \in stories : story_filter(d, story_id, user) }
           updated(d) == SetFields(d, Get(data, "title", ""), Get(data, "story", ""),
                                   Get(data, "story_type", ""), now)
           modified == { d \in matched : updated(d) # d }
       IN IF bearer = Missing \/ user = Invalid
          THEN /\ last' = Unauthorized(req)
               /\ UNCHANGED stories
          ELSE IF story_id = BadId
          THEN /\ last' = [req EXCEPT !.status = 500, !.detail = "Internal Server Error",
                                      !.user = user]
               /\ UNCHANGED stories
          ELSE /\ stories' = (stories \ modified) \cup { updated(d) : d \in modified }
               /\ IF modified = {}
                  THEN last' = [req EXCEPT !.status = 404, !.user = user, !.db = TRUE,
                                           !.detail = "Story not found or not updated"]
                  ELSE last' = [req EXCEPT !.status = 200, !.user = user, !.db = TRUE,
                                           !.detail = "Story updated!"]
    /\ UNCHANGED <<users, nextId, now, issued, welcomed, signed, threads, loop>>

DeleteStory(bearer, story_id) ==
    /\ LoopFree
    /\ LET user == get_current_user(bearer, now)
           req == [Resp("delete", 0, "") EXCEPT !.bearer = bearer, !.id = story_id]
           deleted == { d \in stories : story_filter(d, story_id, user) }
       IN IF bearer = Missing \/ user = Invalid
          THEN /\ last' = Unauthorized(req)
               /\ UNCHANGED stories
          ELSE IF story_id = BadId
          THEN /\ last' = [req EXCEPT !.status = 500, !.detail = "Internal Server Error",
                                      !.user = user]
               /\ UNCHANGED stories
          ELSE /\ stories' = stories \ deleted
               /\ IF deleted = {}
                  THEN last' = [req EXCEPT !.status = 404, !.user = user, !.db = TRUE,
                                           !.detail = "Story not found or not deleted"]
                  ELSE last' = [req EXCEPT !.status = 200, !.user = user, !.db = TRUE,
                                           !.detail = "Story deleted!"]
    /\ UNCHANGED <<users, nextId, now, issued, welcomed, signed, threads, loop>>

\* Time passes.
Tick(d) ==
    /\ now + d <= MaxTime
    /\ now' = now + d
    /\ last' = Resp("tick", 0, "")
    /\ UNCHANGED <<users, stories, nextId, issued, welcomed, signed, threads, loop>>

(***************************************************************************)
(* The auth router: sign-up (on two threads), login and federated login,   *)
(* at one instant.                                                         *)
(***************************************************************************)
Next ==
    \/ \E i \in ThreadIds, u \in SignupNames, p \in Passwords \cup {""} :
          SignupBegin(i, u, p)
    \/ \E i \in ThreadIds, s \in Salts : SignupInsert(i, s)
    \/ \E u \in Usernames, p \in Passwords \cup {""} : Login(u, p)
    \/ \E c \in Credentials : GoogleLoginBegin(c)
    \/ \E t \in loop, sent \in BOOLEAN : GoogleLoginInsert(t, sent)

Spec == Init /\ [][Next]_vars

(***************************************************************************)
(* The auth router when sign-up requests do not overlap: one thread.       *)
(***************************************************************************)
NextSerial ==
    \/ \E u \in SignupNames, p \in Passwords \cup {""} : SignupBegin(1, u, p)
    \/ \E s \in Salts : SignupInsert(1, s)
    \/ \E u \in Usernames, p \in Passwords \cup {""} : Login(u, p)
    \/ \E c \in Credentials : GoogleLoginBegin(c)
    \/ \E t \in loop, sent \in BOOLEAN : GoogleLoginInsert(t, sent)

SpecSerial == Init /\ [][NextSerial]_vars

(***************************************************************************)
(* Sign-up and login with a short plaintext and with one longer than       *)
(* MAX_PASSWORD_LENGTH.                                                    *)
(***************************************************************************)
NextLong ==
    \/ \E i \in ThreadIds, p \in {"p", LongPw} : SignupBegin(i, "a", p)
    \/ \E i \in ThreadIds, s \in Salts : SignupInsert(i, s)
    \/ \E u \in Usernames, p \in {"p", LongPw} : Login(u, p)

SpecLong == Init /\ [][NextLong]_vars

(***************************************************************************)
(* The story handlers, called by a local account "a" and a federated       *)
(* account "b" with every header a caller can build, at one instant.       *)
(***************************************************************************)
TokenSources ==
    \/ SignupBegin(1, "a", "p")
    \/ SignupInsert(1, 1)
    \/ Login("a", "p")
    \/ GoogleLoginBegin([ok |-> TRUE, sub |-> "g2", email |-> "b"])
    \/ \E t \in loop : GoogleLoginInsert(t, TRUE)

NextDocs ==
    \/ TokenSources
    \/ \E b \in Bearers, data \in {Body1, Body3} : SaveStory(b, data)
    \/ \E b \in Bearers : GetMyStories(b)
    \/ \E b \in Bearers, id \in StoryIds : UpdateStory(b, id, Body2)
    \/ \E b \in Bearers, id \in StoryIds : DeleteStory(b, id)

SpecDocs == Init /\ [][NextDocs]_vars

(***************************************************************************)
(* The same handlers while time passes and tokens expire.                  *)
(***************************************************************************)
NextTime ==
    \/ SignupBegin(1, "a", "p")
    \/ SignupInsert(1, 1)
    \/ Login("a", "p")
    \/ \E d \in TickSteps : Tick(d)
    \/ \E b \in Bearers \cup Subjectless : SaveStory(b, Body1)
    \/ \E b \in Bearers \cup Subjectless : GetMyStories(b)
    \/ \E b \in Bearers \cup Subjectless, id \in StoryIds : UpdateStory(b, id, Body2)
    \/ \E b \in Bearers \cup Subjectless, id \in StoryIds : DeleteStory(b, id)

SpecTime == Init /\ [][NextTime]_vars

(***************************************************************************)
(* Vocabulary of the properties.                                           *)
(***************************************************************************)
StoryOps == {"save", "list", "update", "delete"}

\* b was issued for subject s and its 30 minutes have not passed.
ValidFor(b, s) ==
    \E r \in issued : r.token = b /\ r.subject = s
                      /\ now < r.at + ACCESS_TOKEN_EXPIRE_MINUTES

\* b was issued and its 30 minutes have passed.
Expired(b) == \E r \in issued : r.token = b /\ now > r.at + ACCESS_TOKEN_EXPIRE_MINUTES

\* b has the form of a token but is not a token this service issued.
Forged(b) == b.kind = "jwt" /\ b \notin Held

Identifiers == { users[i].username : i \in 1..Len(users) }

\* p verifies against a hash stored under username u.
PasswordOf(u, p) ==
    \E i \in 1..Len(users) :
        /\ users[i].username = u
        /\ "hashed_password" \in DOMAIN users[i]
        /\ checkpw(p, users[i].hashed_password)

FederatedOf(s) == { i \in 1..Len(users) : Matches(users[i], "google_id", s) }

(***************************************************************************)
(* C1.  An update_story or delete_story request with a valid token for A   *)
(* and the id of a document owned by another identity B is answered 404    *)
(* and the document is afterwards exactly as it was.                       *)
(***************************************************************************)
C1_OtherOwnerNotFound ==
    [][ \A d \in stories : \A A \in Usernames :
          ( /\ last'.op \in {"update", "delete"}
            /\ ValidFor(last'.bearer, A)
            /\ last'.id = d._id
            /\ d.username # A )
          => (last'.status = 404 /\ d \in stories') ]_vars

C1_Witness ==
    /\ last.op = "update"
    /\ last.status = 404
    /\ \E A \in Usernames : ValidFor(last.bearer, A)
    /\ \E d \in stories : d._id = last.id /\ d.username # last.bearer.username

(***************************************************************************)
(* C2.  get_my_stories with a valid token for A returns exactly the        *)
(* documents stored with owner A, and no document of another owner.        *)
(***************************************************************************)
C2_ListOwnOnly ==
    \A A \in Usernames :
        (last.op = "list" /\ ValidFor(last.bearer, A)) =>
            /\ last.status = 200
            /\ \A item \in last.stories : item.username = A
            /\ \A d \in stories :
                  d.username = A =>
                      \E item \in last.stories :
                          /\ item._id = IdStr(d._id)
                          /\ item.title = d.title
                          /\ item.story = d.story
                          /\ item.story_type = d.story_type
            /\ \A item \in last.stories :
                  \E d \in stories : d.username = A /\ item._id = IdStr(d._id)

C2_Witness ==
    /\ last.op = "list"
    /\ last.status = 200
    /\ last.stories # {}
    /\ \E d \in stories : d.username # last.user

(***************************************************************************)
(* C3.  There is at most one Identity record per identifier (username).    *)
(***************************************************************************)
C3_OneIdentityPerIdentifier ==
    \A i, j \in 1..Len(users) : users[i].username = users[j].username => i = j

(***************************************************************************)
(* C4.  A signup whose identifier is already in the store is answered      *)
(* Conflict ("User already exists") whatever the password, and the store   *)
(* is left as it was.                                                      *)
(***************************************************************************)
C4_ExistingIdentifierConflict ==
    [][ (last'.op = "signup" /\ last'.username \in Identifiers) =>
            /\ last'.status = 400
            /\ last'.detail = "User already exists"
            /\ users' = users ]_vars

C4_Witness ==
    /\ last.op = "signup"
    /\ last.username \in Identifiers
    /\ last.password = ""
    /\ last.detail = "User already exists"

(***************************************************************************)
(* C5.  A login with an identifier that does not exist and a login with an *)
(* existing identifier and a password that is not its password get the     *)
(* same answer, 401 "Invalid credentials", no token is issued and the      *)
(* store is left as it was.                                                *)
(***************************************************************************)
C5_LoginFailuresAlike ==
    [][ ( /\ last'.op = "login"
          /\ \/ last'.username \notin Identifiers
             \/ (last'.username \in Identifiers
                 /\ ~PasswordOf(last'.username, last'.password)) )
        => /\ last'.status = 401
           /\ last'.detail = "Invalid credentials"
           /\ last'.access_token = NoToken
           /\ issued' = issued
           /\ users' = users ]_vars

(***************************************************************************)
(* C6.  Once signup(identifier, plaintext) has succeeded, every later      *)
(* login(identifier, plaintext) succeeds with a token whose subject is the *)
(* identifier, and echoes the identifier.                                  *)
(***************************************************************************)
C6_LoginAfterSignup ==
    (last.op = "login" /\ <<last.username, last.password>> \in signed) =>
        /\ last.status = 200
        /\ last.access_token.username = last.username
        /\ last.email = last.username

(***************************************************************************)
(* C7.  A token issued for s at time t resolves to s until 30 minutes      *)
(* after t, is rejected with 401 after that, and a token whose payload is  *)
(* not one that was issued is rejected with 401.                           *)
(***************************************************************************)
C7_TokenLifetime ==
    last.op \in StoryOps =>
        /\ \A s \in Usernames :
              ValidFor(last.bearer, s) => (last.user = s /\ last.status # 401)
        /\ Expired(last.bearer) => last.status = 401
        /\ Forged(last.bearer) => last.status = 401

C7_Witness ==
    /\ last.op = "list"
    /\ last.status = 401
    /\ Expired(last.bearer)
    /\ \E r \in issued : r.token # last.bearer /\ ValidFor(r.token, r.subject)

C9_BadTokenNoStorage ==
    [][ ( /\ last'.op \in StoryOps
          /\ \/ last'.bearer \in {Missing, Malformed}
             \/ Forged(last'.bearer)
             \/ Expired(last'.bearer) )
        => /\ last'.status = 401
           /\ ~last'.db
           /\ stories' = stories
           /\ nextId' = nextId ]_vars

C9_Witness ==
    /\ last.op = "delete"
    /\ last.status = 401
    /\ Expired(last.bearer)
    /\ \E d \in stories : d._id = last.id /\ d.username = last.bearer.username

(***************************************************************************)
(* C10.  A successful federated login returns a token whose subject is the *)
(* identifier of the Identity stored for the provider subject id.          *)
(***************************************************************************)
C10_TokenForResolvedIdentity ==
    (last.op \in {"google", "google_done"} /\ last.status = 200) =>
        \E i \in FederatedOf(last.sub) :
            last.access_token.username = users[i].username


(***************************************************************************)
(* C11.  A first-time federated login creates the Identity and answers 200 *)
(* with a token for the assertion's email whether the welcome mail went    *)
(* out or failed.                                                          *)
(***************************************************************************)
C11_MailFailureSwallowed ==
    [][ (last'.op = "google_done" /\ last'.mail \in {"sent", "failed", "raised"}) =>
            /\ last'.status = 200
            /\ last'.access_token = jwt_encode(last'.username,
                                               now + ACCESS_TOKEN_EXPIRE_MINUTES)
            /\ last'.email = last'.username
            /\ last'.access_token \in { r.token : r \in issued' }
            /\ Len(users') = Len(users) + 1
            /\ Matches(users'[Len(users')], "google_id", last'.sub)
            /\ users'[Len(users')].username = last'.username ]_vars

C11_Witness ==
    /\ last.op = "google_done"
    /\ last.mail = "failed"
    /\ last.status = 200
    /\ last.access_token.kind = "jwt"
    /\ FederatedOf(last.sub) # {}

(***************************************************************************)
(* C12.  A federated login whose assertion the verifier rejects is         *)
(* answered 400 and changes nothing: no Identity, no welcome mail, no      *)
(* token, no login left in progress.                                       *)
(***************************************************************************)
C12_RejectedAssertionNoEffect ==
    [][ (last'.op = "google" /\ ~last'.verified) =>
            /\ last'.status = 400
            /\ last'.access_token = NoToken
            /\ users' = users
            /\ welcomed' = welcomed
            /\ issued' = issued
            /\ loop' = loop ]_vars

C12_Witness ==
    /\ last.op = "google"
    /\ ~last.verified
    /\ last.status = 400
    /\ FederatedOf(last.sub) # {}


(***************************************************************************)
(* C13.  Of two overlapping signup requests with the same unused           *)
(* identifier at most one succeeds: the sign-ups never leave more than one *)
(* Identity with a password under one identifier.                          *)
(***************************************************************************)
LocalOf(u) ==
    { i \in 1..Len(users) : users[i].username = u /\ "hashed_password" \in DOMAIN users[i] }

C13_OneSignupWins ==
    \A u \in Usernames :
        /\ Cardinality(LocalOf(u)) <= 1
        /\ (last.op = "signup_done" /\ last.status = 200 /\ last.username = u)
              => Cardinality(LocalOf(u)) = 1

(***************************************************************************)
(* C17.  A local login against an identifier whose records hold only a     *)
(* federated credential is answered 401 "Invalid credentials" for every    *)
(* plaintext, and no token is issued.                                      *)
(***************************************************************************)
FederatedOnly(u) ==
    /\ u \in Identifiers
    /\ \A i \in 1..Len(users) :
          users[i].username = u => "hashed_password" \notin DOMAIN users[i]

C17_FederatedOnlyLoginUnauthorized ==
    (last.op = "login" /\ FederatedOnly(last.username)) =>
        /\ last.status = 401
        /\ last.detail = "Invalid credentials"
        /\ last.access_token = NoToken


(***************************************************************************)
(* C14.  A story request whose token is expired, has a bad signature, is   *)
(* malformed or carries no subject claim gets one and the same answer:     *)
(* 401 "Could not validate credentials".                                   *)
(***************************************************************************)
C14_UniformTokenFailure ==
    ( /\ last.op \in StoryOps
      /\ \/ Expired(last.bearer)
         \/ (Forged(last.bearer) /\ last.bearer.username # "")
         \/ last.bearer = Malformed
         \/ (last.bearer.kind = "jwt" /\ last.bearer.username = "") )
    => (last.status = 401 /\ last.detail = "Could not validate credentials")

C14_Witness ==
    /\ last.op = "update"
    /\ last.bearer.kind = "jwt"
    /\ last.bearer.username = ""
    /\ last.status = 401
    /\ \E r \in issued : Expired(r.token)


(***************************************************************************)
(* C15.  An update_story request with a valid token for the owner of an    *)
(* existing document is answered with the success message and sets title,  *)
(* story, story_type and updated_at; an update or delete with a valid      *)
(* token and an id of the ObjectId form is answered 404 exactly when no    *)
(* stored document matches (id, owner = caller).                           *)
(***************************************************************************)
Owned(id, A) == \E d \in stories : d._id = id /\ d.username = A

C15_OwnerUpdateSucceeds ==
    [][ \A A \in Usernames :
          (last'.op \in {"update", "delete"} /\ ValidFor(last'.bearer, A)
           /\ last'.id # BadId) =>
             /\ (last'.status = 404) <=> ~Owned(last'.id, A)
             /\ (last'.op = "update" /\ Owned(last'.id, A)) =>
                   /\ last'.status = 200
                   /\ last'.detail = "Story updated!"
                   /\ \E e \in stories' :
                         /\ e._id = last'.id
                         /\ e.title = Get(last'.data, "title", "")
                         /\ e.story = Get(last'.data, "story", "")
                         /\ e.story_type = Get(last'.data, "story_type", "")
                         /\ e.updated_at = now ]_vars

(***************************************************************************)
(* C16.  The owner of a stored document never changes: whatever step is    *)
(* taken, a document that exists before and after it has the same owner.   *)
(***************************************************************************)
C16_OwnerNeverReassigned ==
    [][ \A d \in stories : \A e \in stories' :
          e._id = d._id => e.username = d.username ]_vars

C16_Witness ==
    /\ last.op = "update"
    /\ last.status = 200
    /\ \E d \in stories :
          /\ d._id = last.id
          /\ "updated_at" \in DOMAIN d
          /\ d.username = last.user
          /\ d.title = Get(last.data, "title", "")

(***************************************************************************)
(* C19.  Every document is created by a save_story request that carried a  *)
(* token issued by this service and not expired, and its owner is the      *)
(* subject that token was issued for, whatever the request body says.      *)
(***************************************************************************)
C19_OwnerIsTokenSubject ==
    [][ \A d \in stories' :
          (\A e \in stories : e._id # d._id) =>
             /\ last'.op = "save"
             /\ last'.id = d._id
             /\ \E r \in issued :
                   /\ r.token = last'.bearer
                   /\ r.subject = d.username
                   /\ now <= r.at + ACCESS_TOKEN_EXPIRE_MINUTES ]_vars

C19_Witness ==
    /\ last.op = "save"
    /\ last.status = 200
    /\ "username" \in DOMAIN last.data
    /\ \E d \in stories :
          /\ d._id = last.id
          /\ d.username = last.user
          /\ d.username # last.data.username
          /\ \E r \in issued : r.token = last.bearer /\ r.subject = d.username


(***************************************************************************)
(* C18.  No plaintext longer than MAX_PASSWORD_LENGTH is ever passed to    *)
(* bcrypt: a longer one is rejected or cut before hashing or verifying.    *)
(***************************************************************************)
C18_PlaintextBounded ==
    last.op \in {"signup_done", "login"} => last.hashed_len <= MAX_PASSWORD_LENGTH

====
